---- MODULE Spec2Model ----
(***************************************************************************)
(* Model of src/etl_spotify.py: the record transforms                      *)
(* (limpiar_y_transformar_playlists, limpiar_y_transformar_tracks), the    *)
(* batch loader (cargar_en_mongodb) and the per-file orchestrator          *)
(* (procesar_archivo_csv).                                                 *)
(*                                                                         *)
(* A dataframe is a sequence of rows; a row is a record of cells; a cell   *)
(* is [nan, v]: nan = TRUE is pandas' missing value (NaN / None / NaT).    *)
(* Text is a sequence of one-character strings, so that the regular        *)
(* expression of the character stripping can be applied per character.     *)
(* Numbers of the track frames are kept in halves (v = 2 * value): the     *)
(* median of an even number of integers is a multiple of one half.         *)
(***************************************************************************)
EXTENDS Integers, Sequences, FiniteSets, TLC

VARIABLES
    tkind,            \* transform run: which transform is applied
    tin,              \* transform run: the dataframe passed in
    tdf,              \* transform run: the working copy df
    tpc,              \* transform run: position in the transform
    file,             \* the CSV file handed to procesar_archivo_csv
    pc,               \* position in procesar_archivo_csv / cargar_en_mongodb
    mode,             \* "stream", "fallback" or "direct": who called the loader
    pos,              \* rows of the file consumed by the chunk iterator
    nchunk,           \* chunks pulled so far (i of enumerate(chunks))
    chunk,            \* the chunk / dataframe being processed
    dataframe,        \* the dataframe passed to cargar_en_mongodb
    collection_name,  \* target collection
    batch_size,       \* sub-batch size of the current loader call
    records,          \* cargar_en_mongodb: list of dicts
    num_batches,      \* cargar_en_mongodb: number of sub-batches
    i,                \* cargar_en_mongodb: loop index
    sent,             \* sub-batches passed to insert_many in the current call
    warnings,         \* BulkWriteError warnings logged in the current call
    indexes,          \* indexes of the collection in the document store
    stored,           \* documents accepted by the document store
    faults,           \* injected read / store faults so far
    log,              \* every external call and outcome, in order
    archivos,         \* ejecutar_etl: the files listed by descargar_dataset
    idx,              \* ejecutar_etl: files taken from archivos so far
    epc,              \* ejecutar_etl: position
    exito,            \* ejecutar_etl: how the call ended
    db                \* ejecutar_etl: the collections of the document store

vars == <<tkind, tin, tdf, tpc, file, pc, mode, pos, nchunk, chunk, dataframe,
          collection_name, batch_size, records, num_batches, i, sent, warnings,
          indexes, stored, faults, log, archivos, idx, epc, exito, db>>

evars == <<archivos, idx, epc, exito, db>>

tvars == <<tkind, tin, tdf, tpc>>

pvars == <<file, pc, mode, pos, nchunk, chunk, dataframe, collection_name,
           batch_size, records, num_batches, i, sent, warnings, indexes,
           stored, faults, log>>

----------------------------------------------------------------------------
(* Bounds of the model *)

MaxNameLen == 2
MaxPlaylistRows == 2
MaxTrackRows == 2
MaxFileRows == 4
MaxRecords == 5
MaxBatchSize == 3
MaxFaults == 2
MaxEtlFiles == 2
MaxEtlFileRows == 1

\* chunk_size (100000 rows) and the batch_size passed by procesar_archivo_csv
\* (1000 records), scaled down; a chunk still spans several sub-batches.
ChunkSize == 3
BatchSize == 2

----------------------------------------------------------------------------
(* Cells and text *)

NaN == [nan |-> TRUE, v |-> 0]
NaNText == [nan |-> TRUE, v |-> <<>>]
Num(x) == [nan |-> FALSE, v |-> 2 * x]
Val(x) == [nan |-> FALSE, v |-> x]

Range(s) == {s[k] : k \in DOMAIN s}

Min(a, b) == IF a < b THEN a ELSE b

\* Characters matched by \w and by \s in the regular expression [^\w\s]
WordChars == {"a", "b", "U", "n", "k", "o", "w", "P", "l", "y", "i", "s", "t", "_", "0", "1"}
SpaceChars == {" "}

UnknownPlaylist == <<"U","n","k","n","o","w","n"," ","P","l","a","y","l","i","s","t">>

\* Track and artist names are opaque tokens: the track transform never
\* looks inside a text value.
UnknownTrack == 0
UnknownArtist == 0

RECURSIVE drop_duplicates(_)
\* df.drop_duplicates(): keep the first occurrence of each row (full-row
\* equality, missing values compare equal).
drop_duplicates(df) ==
    IF df = <<>> THEN <<>>
    ELSE LET n == Len(df)
             front == drop_duplicates(SubSeq(df, 1, n - 1))
         IN  IF \E k \in 1..(n - 1) : df[k] = df[n]
             THEN front
             ELSE Append(front, df[n])

----------------------------------------------------------------------------
(* limpiar_y_transformar_playlists *)

\* Columns of a playlist frame: id (integer), name (text), created_date
\* (text, a column whose name contains "date").
PlaylistRow(id, name, d) == [id |-> id, name |-> name, created_date |-> d]

fillna_name(df) ==
    [k \in DOMAIN df |->
        IF df[k].name.nan THEN [df[k] EXCEPT !.name = Val(UnknownPlaylist)]
        ELSE df[k]]

\* pd.to_datetime(value, errors='coerce') on the date texts of the model:
\* a parsable text becomes a timestamp (a day number), anything else NaT.
to_datetime(c) ==
    IF c.nan THEN NaN
    ELSE IF c.v = "2020-01-01" THEN Val(1)
    ELSE IF c.v = "2020-01-02" THEN Val(2)
    ELSE NaN

parse_dates(df) ==
    [k \in DOMAIN df |-> [df[k] EXCEPT !.created_date = to_datetime(@)]]

IsWordOrSpace(c) == c \in WordChars \cup SpaceChars

\* value.astype(str).str.replace(r'[^\w\s]', '', regex=True)
str_replace(s) == SelectSeq(s, IsWordOrSpace)

\* The object-typed columns after the date conversion: name.
strip_text(df) ==
    [k \in DOMAIN df |-> [df[k] EXCEPT !.name = Val(str_replace(@.v))]]

limpiar_y_transformar_playlists(df) ==
    strip_text(parse_dates(fillna_name(drop_duplicates(df))))

----------------------------------------------------------------------------
(* limpiar_y_transformar_tracks *)

\* Columns of a track frame: track_name, artist_name (text tokens) and
\* popularity (numeric, in halves); popularity_category is derived.
TrackRow(t, a, p) == [track_name |-> t, artist_name |-> a, popularity |-> p]

fillna_tracks(df) ==
    [k \in DOMAIN df |->
        [df[k] EXCEPT
            !.track_name = IF @.nan THEN Val(UnknownTrack) ELSE @,
            !.artist_name = IF @.nan THEN Val(UnknownArtist) ELSE @]]

\* The non-missing values of the popularity column, ascending.
Present(df) == SelectSeq([k \in DOMAIN df |-> df[k].popularity], LAMBDA c : ~c.nan)

SortedValues(df) ==
    SortSeq([k \in DOMAIN Present(df) |-> Present(df)[k].v], LAMBDA a, b : a < b)

\* Series.quantile(q20 / 20) with linear interpolation, times 20.
quantile20(s, q20) ==
    LET h == q20 * (Len(s) - 1)
        lo == (h \div 20) + 1
        fr == h % 20
    IN  IF fr = 0 THEN 20 * s[lo]
        ELSE 20 * s[lo] + fr * (s[lo + 1] - s[lo])

q1_20(df) == quantile20(SortedValues(df), 1)

\* A plausible slip: the third quartile instead of the 95th percentile.
q3_20_quartile(df) == quantile20(SortedValues(df), 15)

q3_20(df) == quantile20(SortedValues(df), 19)

\* lower_bound and upper_bound, times 40.
lower_bound40(df) == 2 * q1_20(df) - 3 * (q3_20(df) - q1_20(df))
upper_bound40(df) == 2 * q3_20(df) + 3 * (q3_20(df) - q1_20(df))

IsOutlier(df, c) ==
    /\ ~c.nan
    /\ SortedValues(df) # <<>>
    /\ \/ 40 * c.v < lower_bound40(df)
       \/ 40 * c.v > upper_bound40(df)

\* df.loc[(df[col] < lower_bound) | (df[col] > upper_bound), col] = np.nan
mask_outliers(df) ==
    [k \in DOMAIN df |->
        IF IsOutlier(df, df[k].popularity)
        THEN [df[k] EXCEPT !.popularity = NaN]
        ELSE df[k]]

\* Series.median(): missing values skipped; NaN for an empty column.
median(df) ==
    LET s == SortedValues(df)
        n == Len(s)
    IN  IF n = 0 THEN NaN
        ELSE IF n % 2 = 1 THEN Val(s[(n + 1) \div 2])
        ELSE Val((s[n \div 2] + s[(n \div 2) + 1]) \div 2)

\* df[col].fillna(df[col].median(), inplace=True)
fillna_median(df) ==
    [k \in DOMAIN df |->
        IF df[k].popularity.nan
        THEN [df[k] EXCEPT !.popularity = median(df)]
        ELSE df[k]]

suppress_outliers(df) == fillna_median(mask_outliers(df))

\* pd.cut(value, bins=[0, 20, 40, 60, 80, 100], labels=[...]): the bins are
\* half-open on the left, (0, 20], (20, 40], ...; values are in halves.
cut(c) ==
    IF c.nan THEN "NaN"
    ELSE IF c.v > 2 * 0 /\ c.v <= 2 * 20 THEN "Very Low"
    ELSE IF c.v > 2 * 20 /\ c.v <= 2 * 40 THEN "Low"
    ELSE IF c.v > 2 * 40 /\ c.v <= 2 * 60 THEN "Medium"
    ELSE IF c.v > 2 * 60 /\ c.v <= 2 * 80 THEN "High"
    ELSE IF c.v > 2 * 80 /\ c.v <= 2 * 100 THEN "Very High"
    ELSE "NaN"

add_popularity_category(df) ==
    [k \in DOMAIN df |->
        [track_name |-> df[k].track_name,
         artist_name |-> df[k].artist_name,
         popularity |-> df[k].popularity,
         popularity_category |-> cut(df[k].popularity)]]

limpiar_y_transformar_tracks(df) ==
    add_popularity_category(suppress_outliers(fillna_tracks(drop_duplicates(df))))

----------------------------------------------------------------------------
(* Inputs of the transforms *)

SeqsUpTo(S, n) == UNION {[1..k -> S] : k \in 0..n}

\* Names as read from a CSV file: missing, or a non-empty text.
NameChars == {"a", "!"}
NameTexts == {s \in SeqsUpTo(NameChars, MaxNameLen) : s # <<>>}
NameCells == {NaNText} \cup {Val(s) : s \in NameTexts}
DateCells == {[nan |-> TRUE, v |-> ""], Val("2020-01-01"), Val("soon")}

PlaylistRows ==
    {PlaylistRow(id, nm, d) : id \in {1, 2}, nm \in NameCells, d \in DateCells}

PlaylistFrames == SeqsUpTo(PlaylistRows, MaxPlaylistRows)

TokenCells == {NaN, Val(1)}
Popularities == {-1, 0, 20, 21, 40, 41, 60, 61, 80, 81, 100, 101}
PopularityCells == {NaN} \cup {Num(x) : x \in Popularities}

TrackRows ==
    {TrackRow(t, a, p) : t \in TokenCells, a \in TokenCells, p \in PopularityCells}

\* Longer columns, on which the percentile bounds can exclude a value:
\* n distinct tracks with popularity 1, 2, ..., n-1 (or a constant) and one
\* extreme value in the last row.
LongLens == {5, 14, 21}
Extremes == {1000, -1000}

LongFrame(n, x, flat) ==
    [k \in 1..n |->
        TrackRow(Val(k), Val(1),
                 IF k = n THEN Num(x) ELSE IF flat THEN Num(50) ELSE Num(k))]

LongFrames == {LongFrame(n, x, flat) : n \in LongLens, x \in Extremes, flat \in BOOLEAN}

TrackFrames == SeqsUpTo(TrackRows, MaxTrackRows) \cup LongFrames

----------------------------------------------------------------------------
(* State of a run that is not in use *)

NoFile == [kind |-> "none", status |-> "none", rows |-> <<>>]

IdleTransform ==
    /\ tkind = "none"
    /\ tin = <<>>
    /\ tdf = <<>>
    /\ tpc = "idle"

CollectionNames == {"playlists", "tracks", "generic"}

EmptyDb == [c \in CollectionNames |-> [indexes |-> {}, stored |-> 0]]

IdleEtl ==
    /\ archivos = <<>>
    /\ idx = 0
    /\ epc = "idle"
    /\ exito = "none"
    /\ db = EmptyDb

IdlePipeline ==
    /\ file = NoFile
    /\ pc = "idle"
    /\ mode = "none"
    /\ pos = 0
    /\ nchunk = 0
    /\ chunk = <<>>
    /\ dataframe = <<>>
    /\ collection_name = "none"
    /\ batch_size = 1
    /\ records = <<>>
    /\ num_batches = 0
    /\ i = 0
    /\ sent = <<>>
    /\ warnings = 0
    /\ indexes = {}
    /\ stored = 0
    /\ faults = 0
    /\ log = <<>>

----------------------------------------------------------------------------
(* The transforms, step by step *)

InitTransform ==
    /\ IdlePipeline
    /\ IdleEtl
    /\ \/ tkind = "playlists" /\ tin \in PlaylistFrames
       \/ tkind = "tracks" /\ tin \in TrackFrames
    /\ tdf = tin
    /\ tpc = "dedup"

TStep(kind, from, to, result) ==
    /\ tkind = kind
    /\ tpc = from
    /\ tdf' = result
    /\ tpc' = to
    /\ UNCHANGED <<tkind, tin>>
    /\ UNCHANGED pvars
    /\ UNCHANGED evars

PlaylistsDropDuplicates == TStep("playlists", "dedup", "fillna", drop_duplicates(tdf))
PlaylistsFillName == TStep("playlists", "fillna", "dates", fillna_name(tdf))
PlaylistsParseDates == TStep("playlists", "dates", "strip", parse_dates(tdf))
PlaylistsStripText == TStep("playlists", "strip", "done", strip_text(tdf))

TracksDropDuplicates == TStep("tracks", "dedup", "fillna", drop_duplicates(tdf))
TracksFillNames == TStep("tracks", "fillna", "numeric", fillna_tracks(tdf))
TracksSuppressOutliers == TStep("tracks", "numeric", "cut", suppress_outliers(tdf))
TracksPopularityCategory == TStep("tracks", "cut", "done", add_popularity_category(tdf))

NextTransform ==
    \/ PlaylistsDropDuplicates
    \/ PlaylistsFillName
    \/ PlaylistsParseDates
    \/ PlaylistsStripText
    \/ TracksDropDuplicates
    \/ TracksFillNames
    \/ TracksSuppressOutliers
    \/ TracksPopularityCategory

SpecTransform == InitTransform /\ [][NextTransform]_vars

----------------------------------------------------------------------------
(* The document store and the files *)

Event(op, arg, res) == [op |-> op, arg |-> arg, res |-> res]

\* lambda df: df.dropna(how='all'), the transform of a file that is neither
\* a playlist nor a track file; its frames have one column, a.
GenericRow(a) == [a |-> a]

dropna_all(df) == SelectSeq(df, LAMBDA r : ~r.a.nan)

funcion_transformacion(kind, df) ==
    IF kind = "playlists" THEN limpiar_y_transformar_playlists(df)
    ELSE IF kind = "tracks" THEN limpiar_y_transformar_tracks(df)
    ELSE dropna_all(df)

\* json.loads(dataframe.to_json(orient='records', date_format='iso')):
\* a missing value becomes null, a timestamp its ISO text, a category its
\* label; JSON values are [null, v].
JNull == [null |-> TRUE, v |-> 0]
J(x) == [null |-> FALSE, v |-> x]

JsonCell(c) == IF c.nan THEN JNull ELSE J(c.v)

IsoDate(c) ==
    IF c.nan THEN JNull
    ELSE IF c.v = 1 THEN J("2020-01-01T00:00:00.000")
    ELSE J("2020-01-02T00:00:00.000")

to_json_records(kind, df) ==
    [k \in DOMAIN df |->
        IF kind = "playlists"
        THEN [id |-> J(df[k].id), name |-> JsonCell(df[k].name),
              created_date |-> IsoDate(df[k].created_date)]
        ELSE IF kind = "tracks"
        THEN [track_name |-> JsonCell(df[k].track_name),
              artist_name |-> JsonCell(df[k].artist_name),
              popularity |-> JsonCell(df[k].popularity),
              popularity_category |->
                  IF df[k].popularity_category = "NaN" THEN JNull
                  ELSE J(df[k].popularity_category)]
        ELSE [a |-> JsonCell(df[k].a)]]

Index(field, unique) == [field |-> field, unique |-> unique]

\* A plausible slip: the unique flag is left out.
RequiredIndexesNotUnique(name) ==
    IF name = "playlists" THEN <<Index("id", FALSE), Index("name", FALSE)>>
    ELSE IF name = "tracks"
    THEN <<Index("id", FALSE), Index("artist_name", FALSE), Index("track_name", FALSE)>>
    ELSE <<>>

\* The create_index calls of cargar_en_mongodb, in call order.
RequiredIndexes(name) ==
    IF name = "playlists" THEN <<Index("id", TRUE), Index("name", FALSE)>>
    ELSE IF name = "tracks"
    THEN <<Index("id", TRUE), Index("artist_name", FALSE), Index("track_name", FALSE)>>
    ELSE <<>>

Kinds == {"playlists", "tracks", "generic"}

FileRows(kind) ==
    IF kind = "playlists"
    THEN {PlaylistRow(1, Val(<<"a">>), Val("2020-01-01")),
          PlaylistRow(1, Val(<<"a", "!">>), Val("2020-01-01")),
          PlaylistRow(2, NaNText, Val("soon"))}
    ELSE IF kind = "tracks"
    THEN {TrackRow(Val(1), Val(1), Num(0)),
          TrackRow(NaN, Val(1), Num(50)),
          TrackRow(Val(1), NaN, NaN)}
    ELSE {GenericRow(NaN), GenericRow(Val(1)), GenericRow(Val(2))}

\* A file is missing, empty (zero bytes), or a header line followed by
\* rows (none for a header-only file).
OkFiles(kind) ==
    {[kind |-> kind, status |-> "ok", rows |-> r] :
        r \in SeqsUpTo(FileRows(kind), MaxFileRows)}

AllFiles ==
    UNION {OkFiles(kind) : kind \in Kinds}
    \cup {[kind |-> kind, status |-> st, rows |-> <<>>] :
            kind \in Kinds, st \in {"missing", "empty"}}

----------------------------------------------------------------------------
(* cargar_en_mongodb(db, dataframe, collection_name, batch_size) *)

\* Where the loader hands control back to.
AfterLoadReturn ==
    IF mode = "stream" THEN "iter"
    ELSE IF mode = "fallback" THEN "completed"
    ELSE "loaded"

\* A plausible slip: a loader error in the streaming path is not caught.
AfterLoadRaiseUncaught ==
    IF mode = "direct" THEN "load_raised" ELSE "aborted"

AfterLoadRaise ==
    IF mode = "stream" THEN "except"
    ELSE IF mode = "fallback" THEN "aborted"
    ELSE "load_raised"

\* A plausible slip: rounding down instead of up.
NumBatchesRoundedDown(total_records, size) == total_records \div size

\* num_batches = (total_records + batch_size - 1) // batch_size
NumBatches(total_records, size) == (total_records + size - 1) \div size

LoadBegin ==
    /\ pc = "load_begin"
    /\ records' = to_json_records(collection_name, dataframe)
    /\ num_batches' = NumBatches(Len(records'), batch_size)
    /\ i' = 0
    /\ sent' = <<>>
    /\ warnings' = 0
    /\ log' = Append(log, Event("call", "cargar_en_mongodb", mode))
    /\ pc' = "load_loop"
    /\ UNCHANGED <<file, mode, pos, nchunk, chunk, dataframe, collection_name,
                   batch_size, indexes, stored, faults>>
    /\ UNCHANGED tvars
    /\ UNCHANGED evars

Batch(k) ==
    SubSeq(records, k * batch_size + 1, Min((k + 1) * batch_size, Len(records)))

\* A plausible slip: the document-level error is escalated.
BulkWriteErrorEscalated == "load_except"

\* except BulkWriteError: log a warning and go on with the next sub-batch.
AfterBulkWriteError == "load_loop"

\* One iteration of the loop over range(num_batches). insert_many either
\* succeeds, raises BulkWriteError (some documents rejected, the others
\* written), or raises another error (connection lost).
InsertBatch ==
    /\ pc = "load_loop"
    /\ i < num_batches
    /\ LET batch == Batch(i)
       IN  IF batch = <<>>
           THEN /\ i' = i + 1
                /\ UNCHANGED <<pc, sent, warnings, stored, faults, log>>
           ELSE /\ sent' = Append(sent, batch)
                /\ \/ /\ stored' = stored + Len(batch)
                      /\ log' = Append(log, Event("insert_many", collection_name, "ok"))
                      /\ i' = i + 1
                      /\ UNCHANGED <<pc, warnings, faults>>
                   \/ /\ \E rejected \in 1..Len(batch) :
                            stored' = stored + Len(batch) - rejected
                      /\ warnings' = warnings + 1
                      /\ log' = Append(log, Event("insert_many", collection_name, "bwe"))
                      /\ i' = i + 1
                      /\ pc' = AfterBulkWriteError
                      /\ UNCHANGED faults
                   \/ /\ faults < MaxFaults
                      /\ faults' = faults + 1
                      /\ log' = Append(log, Event("insert_many", collection_name, "error"))
                      /\ pc' = "load_except"
                      /\ UNCHANGED <<i, warnings, stored>>
    /\ UNCHANGED <<file, mode, pos, nchunk, chunk, dataframe, collection_name,
                   batch_size, records, num_batches, indexes>>
    /\ UNCHANGED tvars
    /\ UNCHANGED evars

\* The create_index calls after the loop; failAt = 0: every call succeeds,
\* failAt = k: the k-th call raises.
CreateIndexes ==
    /\ pc = "load_loop"
    /\ i = num_batches
    /\ LET req == RequiredIndexes(collection_name)
       IN  \E failAt \in 0..Len(req) :
            /\ failAt > 0 => faults < MaxFaults
            /\ LET done == IF failAt = 0 THEN Len(req) ELSE failAt - 1
               IN  /\ indexes' = indexes \cup {req[k] : k \in 1..done}
                   /\ log' = log
                        \o [k \in 1..done |-> Event("create_index", req[k].field, "ok")]
                        \o (IF failAt = 0 THEN <<>>
                            ELSE <<Event("create_index", req[failAt].field, "error")>>)
            /\ faults' = IF failAt = 0 THEN faults ELSE faults + 1
            /\ pc' = IF failAt = 0 THEN "load_return" ELSE "load_except"
    /\ UNCHANGED <<file, mode, pos, nchunk, chunk, dataframe, collection_name,
                   batch_size, records, num_batches, i, sent, warnings, stored>>
    /\ UNCHANGED tvars
    /\ UNCHANGED evars

\* return True
LoadReturn ==
    /\ pc = "load_return"
    /\ log' = Append(log, Event("return", "cargar_en_mongodb", "True"))
                \o (IF mode = "fallback"
                    THEN <<Event("return", "procesar_archivo_csv", "True")>>
                    ELSE <<>>)
    /\ pc' = AfterLoadReturn
    /\ UNCHANGED <<file, mode, pos, nchunk, chunk, dataframe, collection_name,
                   batch_size, records, num_batches, i, sent, warnings, indexes,
                   stored, faults>>
    /\ UNCHANGED tvars
    /\ UNCHANGED evars

\* except Exception: log and re-raise
LoadRaise ==
    /\ pc = "load_except"
    /\ log' = Append(log, Event("raise", "cargar_en_mongodb", "error"))
                \o (IF AfterLoadRaise = "aborted"
                    THEN <<Event("raise", "procesar_archivo_csv", "error")>>
                    ELSE <<>>)
    /\ pc' = AfterLoadRaise
    /\ UNCHANGED <<file, mode, pos, nchunk, chunk, dataframe, collection_name,
                   batch_size, records, num_batches, i, sent, warnings, indexes,
                   stored, faults>>
    /\ UNCHANGED tvars
    /\ UNCHANGED evars

----------------------------------------------------------------------------
(* procesar_archivo_csv(file_path, db, collection_name, funcion_transformacion) *)

\* A read of the file raises when the file is missing or empty (pandas'
\* EmptyDataError), or on an injected fault (I/O or parser error).
ReadOutcomes == {"ok", "error"}

CanRead(outcome) ==
    IF file.status = "ok"
    THEN outcome = "error" => faults < MaxFaults
    ELSE outcome = "error"

\* sample_data = pd.read_csv(file_path, nrows=5)
Sniff ==
    /\ pc = "sniff"
    /\ \E outcome \in ReadOutcomes :
        /\ CanRead(outcome)
        /\ log' = Append(log, Event("read_csv", "sniff", outcome))
        /\ faults' = IF outcome = "error" /\ file.status = "ok" THEN faults + 1 ELSE faults
        /\ pc' = IF outcome = "ok" THEN "open" ELSE "except"
    /\ UNCHANGED <<file, mode, pos, nchunk, chunk, dataframe, collection_name,
                   batch_size, records, num_batches, i, sent, warnings, indexes,
                   stored>>
    /\ UNCHANGED tvars
    /\ UNCHANGED evars

\* chunks = pd.read_csv(file_path, chunksize=chunk_size, on_bad_lines='skip')
\* (or its spelling for older pandas); total_filas_procesadas = 0
OpenChunks ==
    /\ pc = "open"
    /\ \E outcome \in ReadOutcomes :
        /\ CanRead(outcome)
        /\ log' = Append(log, Event("read_csv", "chunks", outcome))
        /\ faults' = IF outcome = "error" THEN faults + 1 ELSE faults
        /\ pc' = IF outcome = "ok" THEN "iter" ELSE "except"
    /\ pos' = 0
    /\ nchunk' = 0
    /\ mode' = "stream"
    /\ UNCHANGED <<file, chunk, dataframe, collection_name, batch_size, records,
                   num_batches, i, sent, warnings, indexes, stored>>
    /\ UNCHANGED tvars
    /\ UNCHANGED evars

\* The iterator has a next chunk: the next ChunkSize rows, or, for a file
\* with a header line and no rows, one empty chunk.
HasNextChunk == pos < Len(file.rows) \/ nchunk = 0

\* for i, chunk in enumerate(chunks): pull the next chunk
NextChunk ==
    /\ pc = "iter"
    /\ HasNextChunk
    /\ \E outcome \in ReadOutcomes :
        /\ CanRead(outcome)
        /\ log' = Append(log, Event("next_chunk", "chunks", outcome))
        /\ faults' = IF outcome = "error" THEN faults + 1 ELSE faults
        /\ IF outcome = "ok"
           THEN /\ chunk' = SubSeq(file.rows, pos + 1, Min(pos + ChunkSize, Len(file.rows)))
                /\ pos' = Min(pos + ChunkSize, Len(file.rows))
                /\ nchunk' = nchunk + 1
                /\ pc' = "transform"
           ELSE /\ pc' = "except"
                /\ UNCHANGED <<chunk, pos, nchunk>>
    /\ UNCHANGED <<file, mode, dataframe, collection_name, batch_size, records,
                   num_batches, i, sent, warnings, indexes, stored>>
    /\ UNCHANGED tvars
    /\ UNCHANGED evars

\* chunk_transformado = funcion_transformacion(chunk);
\* cargar_en_mongodb(db, chunk_transformado, collection_name, batch_size=1000)
TransformChunk ==
    /\ pc = "transform"
    /\ dataframe' = funcion_transformacion(file.kind, chunk)
    /\ batch_size' = BatchSize
    /\ pc' = "load_begin"
    /\ UNCHANGED <<file, mode, pos, nchunk, chunk, collection_name, records,
                   num_batches, i, sent, warnings, indexes, stored, faults, log>>
    /\ UNCHANGED tvars
    /\ UNCHANGED evars

\* The iterator is exhausted: log the total and return True.
FileCompleted ==
    /\ pc = "iter"
    /\ ~HasNextChunk
    /\ log' = Append(log, Event("return", "procesar_archivo_csv", "True"))
    /\ pc' = "completed"
    /\ UNCHANGED <<file, mode, pos, nchunk, chunk, dataframe, collection_name,
                   batch_size, records, num_batches, i, sent, warnings, indexes,
                   stored, faults>>
    /\ UNCHANGED tvars
    /\ UNCHANGED evars

\* except Exception: df = pd.read_csv(file_path, engine='python', ...);
\* when this read raises too, the inner handler logs and re-raises.
FallbackRead ==
    /\ pc = "except"
    /\ \E outcome \in ReadOutcomes :
        /\ CanRead(outcome)
        /\ faults' = IF outcome = "error" /\ file.status = "ok" THEN faults + 1 ELSE faults
        /\ IF outcome = "ok"
           THEN /\ chunk' = file.rows
                /\ log' = Append(log, Event("read_csv", "whole", "ok"))
                /\ pc' = "fb_transform"
           ELSE /\ log' = log \o <<Event("read_csv", "whole", "error"),
                                   Event("raise", "procesar_archivo_csv", "error")>>
                /\ pc' = "aborted"
                /\ UNCHANGED chunk
    /\ mode' = "fallback"
    /\ UNCHANGED <<file, pos, nchunk, dataframe, collection_name, batch_size,
                   records, num_batches, i, sent, warnings, indexes, stored>>
    /\ UNCHANGED tvars
    /\ UNCHANGED evars

\* df_transformado = funcion_transformacion(df);
\* cargar_en_mongodb(db, df_transformado, collection_name, batch_size=1000)
FallbackTransform ==
    /\ pc = "fb_transform"
    /\ dataframe' = funcion_transformacion(file.kind, chunk)
    /\ batch_size' = BatchSize
    /\ pc' = "load_begin"
    /\ UNCHANGED <<file, mode, pos, nchunk, chunk, collection_name, records,
                   num_batches, i, sent, warnings, indexes, stored, faults, log>>
    /\ UNCHANGED tvars
    /\ UNCHANGED evars

----------------------------------------------------------------------------
(* Specifications *)

Init ==
    /\ IdleTransform
    /\ IdleEtl
    /\ file \in AllFiles
    /\ pc = "sniff"
    /\ mode = "stream"
    /\ pos = 0
    /\ nchunk = 0
    /\ chunk = <<>>
    /\ dataframe = <<>>
    /\ collection_name = file.kind
    /\ batch_size = BatchSize
    /\ records = <<>>
    /\ num_batches = 0
    /\ i = 0
    /\ sent = <<>>
    /\ warnings = 0
    /\ indexes = {}
    /\ stored = 0
    /\ faults = 0
    /\ log = <<>>

Next ==
    \/ Sniff
    \/ OpenChunks
    \/ NextChunk
    \/ TransformChunk
    \/ FileCompleted
    \/ FallbackRead
    \/ FallbackTransform
    \/ LoadBegin
    \/ InsertBatch
    \/ CreateIndexes
    \/ LoadReturn
    \/ LoadRaise

Spec == Init /\ [][Next]_vars

\* cargar_en_mongodb called on its own, for any sub-batch size.
SampleRow(kind, k) ==
    IF kind = "playlists" THEN PlaylistRow(k, Val(<<"a">>), Val(1))
    ELSE IF kind = "tracks"
    THEN [track_name |-> Val(k), artist_name |-> Val(1), popularity |-> Num(50),
          popularity_category |-> "Medium"]
    ELSE GenericRow(Val(k))

InitLoad ==
    /\ IdleTransform
    /\ IdleEtl
    /\ file = NoFile
    /\ pc = "load_begin"
    /\ mode = "direct"
    /\ pos = 0
    /\ nchunk = 0
    /\ chunk = <<>>
    /\ collection_name \in Kinds
    /\ \E n \in 0..MaxRecords : dataframe = [k \in 1..n |-> SampleRow(collection_name, k)]
    /\ batch_size \in 1..MaxBatchSize
    /\ records = <<>>
    /\ num_batches = 0
    /\ i = 0
    /\ sent = <<>>
    /\ warnings = 0
    /\ indexes = {}
    /\ stored = 0
    /\ faults = 0
    /\ log = <<>>

NextLoad ==
    \/ LoadBegin
    \/ InsertBatch
    \/ CreateIndexes
    \/ LoadReturn
    \/ LoadRaise

SpecLoad == InitLoad /\ [][NextLoad]_vars

----------------------------------------------------------------------------
(* ejecutar_etl() *)

\* A plausible slip: the exception is re-raised to the caller.
ResultOnExceptionRaised == "raised"

\* except Exception: log the error and return False
ResultOnException == "False"

EtlFiles ==
    UNION {{[kind |-> kind, status |-> "ok", rows |-> r] :
                r \in SeqsUpTo(FileRows(kind), MaxEtlFileRows)} : kind \in Kinds}
    \cup {[kind |-> kind, status |-> st, rows |-> <<>>] :
            kind \in Kinds, st \in {"missing", "empty"}}

\* The collection a file goes to: "playlists" or "tracks" by its name, the
\* name without extension otherwise.
CollectionOf(f) == f.kind

\* The store with the state of the collection in use written back.
DbNow ==
    IF collection_name \in CollectionNames
    THEN [db EXCEPT ![collection_name] = [indexes |-> indexes, stored |-> stored]]
    ELSE db

\* db.list_collection_names(): a collection exists once a document or an
\* index has been written to it.
list_collection_names(d) ==
    {c \in CollectionNames : d[c].stored > 0 \/ d[c].indexes # {}}

\* Fixed order in which the collections are listed.
CollectionOrder == <<"generic", "playlists", "tracks">>

CountEvents(d) ==
    LET names == SelectSeq(CollectionOrder, LAMBDA c : c \in list_collection_names(d))
    IN  [k \in DOMAIN names |-> Event("count_documents", names[k], "ok")]

\* load_dotenv, configurar_kaggle_api, descargar_dataset, conectar_mongodb:
\* any of them may raise (missing credentials, download or connection
\* failure); the handler of ejecutar_etl then returns False.
EtlSetup ==
    /\ epc = "setup"
    /\ \E outcome \in {"ok", "error"} :
        /\ log' = Append(log, Event("setup", "ejecutar_etl", outcome))
        /\ epc' = IF outcome = "ok" THEN "loop" ELSE "returned"
        /\ exito' = IF outcome = "ok" THEN exito ELSE ResultOnException
    /\ UNCHANGED <<archivos, idx, db>>
    /\ UNCHANGED <<file, pc, mode, pos, nchunk, chunk, dataframe, collection_name,
                   batch_size, records, num_batches, i, sent, warnings, indexes,
                   stored, faults>>
    /\ UNCHANGED tvars

\* for archivo in archivos: the next file is handed to procesar_archivo_csv
\* with the collection and the transform chosen from its name.
EtlNextFile ==
    /\ epc = "loop"
    /\ pc \in {"idle", "completed"}
    /\ idx < Len(archivos)
    /\ idx' = idx + 1
    /\ file' = archivos[idx + 1]
    /\ collection_name' = CollectionOf(archivos[idx + 1])
    /\ db' = DbNow
    /\ indexes' = DbNow[collection_name'].indexes
    /\ stored' = DbNow[collection_name'].stored
    /\ pc' = "sniff"
    /\ mode' = "stream"
    /\ pos' = 0
    /\ nchunk' = 0
    /\ chunk' = <<>>
    /\ log' = Append(log, Event("process_file", collection_name', ToString(idx + 1)))
    /\ UNCHANGED <<dataframe, batch_size, records, num_batches, i, sent, warnings,
                   faults>>
    /\ UNCHANGED <<archivos, epc, exito>>
    /\ UNCHANGED tvars

\* procesar_archivo_csv raised: the handler of ejecutar_etl logs the error
\* and returns False.
EtlFileRaised ==
    /\ epc = "loop"
    /\ pc = "aborted"
    /\ db' = DbNow
    /\ exito' = ResultOnException
    /\ epc' = "returned"
    /\ log' = Append(log, Event("return", "ejecutar_etl", exito'))
    /\ UNCHANGED <<file, pc, mode, pos, nchunk, chunk, dataframe, collection_name,
                   batch_size, records, num_batches, i, sent, warnings, indexes,
                   stored, faults>>
    /\ UNCHANGED <<archivos, idx>>
    /\ UNCHANGED tvars

\* After the loop: list the collections, count the documents of each and
\* return True; a store error here is caught like any other.
EtlSummary ==
    /\ epc = "loop"
    /\ pc \in {"idle", "completed"}
    /\ idx = Len(archivos)
    /\ db' = DbNow
    /\ \E outcome \in {"ok", "error"} :
        /\ exito' = IF outcome = "ok" THEN "True" ELSE ResultOnException
        /\ log' = log
                \o (IF outcome = "ok" THEN CountEvents(DbNow)
                    ELSE <<Event("list_collection_names", "ejecutar_etl", "error")>>)
                \o <<Event("return", "ejecutar_etl", exito')>>
    /\ epc' = "returned"
    /\ UNCHANGED <<file, pc, mode, pos, nchunk, chunk, dataframe, collection_name,
                   batch_size, records, num_batches, i, sent, warnings, indexes,
                   stored, faults>>
    /\ UNCHANGED <<archivos, idx>>
    /\ UNCHANGED tvars

InitEtl ==
    /\ IdleTransform
    /\ IdlePipeline
    /\ archivos \in SeqsUpTo(EtlFiles, MaxEtlFiles)
    /\ idx = 0
    /\ epc = "setup"
    /\ exito = "none"
    /\ db = EmptyDb

NextEtl ==
    \/ EtlSetup
    \/ EtlNextFile
    \/ EtlFileRaised
    \/ EtlSummary
    \/ Sniff
    \/ OpenChunks
    \/ NextChunk
    \/ TransformChunk
    \/ FileCompleted
    \/ FallbackRead
    \/ FallbackTransform
    \/ LoadBegin
    \/ InsertBatch
    \/ CreateIndexes
    \/ LoadReturn
    \/ LoadRaise

SpecEtl == InitEtl /\ [][NextEtl]_vars

----------------------------------------------------------------------------
(* Helpers of the properties *)

RECURSIVE Flatten(_)
Flatten(ss) == IF ss = <<>> THEN <<>> ELSE Head(ss) \o Flatten(Tail(ss))

IsPrefix(a, b) == Len(a) <= Len(b) /\ a = SubSeq(b, 1, Len(a))

Last(s) == s[Len(s)]

Events(op) == {k \in DOMAIN log : log[k].op = op}

IsRead(e) == e.op \in {"read_csv", "next_chunk"}

\* A store call that raised something other than BulkWriteError.
IsStoreFailure(e) == e.op \in {"insert_many", "create_index"} /\ e.res = "error"

\* The read that starts the fallback whole-file path.
FallbackReads == {k \in DOMAIN log : log[k].op = "read_csv" /\ log[k].arg = "whole"}

LoaderReturns ==
    {k \in DOMAIN log : log[k] = Event("return", "cargar_en_mongodb", "True")}

\* The least k with k * b >= n.
CeilDiv(n, b) == CHOOSE k \in 0..n : k * b >= n /\ (k = 0 \/ (k - 1) * b < n)

----------------------------------------------------------------------------
(* C1 *)

\* C1: after insert_many or create_index raised an error that is not a
\* BulkWriteError, the file is not read again and insert_many is not called
\* again for that file.
C1_NoRetryAfterStoreFailure ==
    \A a \in DOMAIN log, b \in DOMAIN log :
        (a < b /\ IsStoreFailure(log[a]))
            => ~IsRead(log[b]) /\ log[b].op # "insert_many"

----------------------------------------------------------------------------
(* C2 *)

\* C2: a BulkWriteError on a sub-batch is counted as a warning and the loop
\* goes on: the loader raises only on a different error, and it reaches its
\* return with every sub-batch submitted and the indexes created, whatever
\* the number and position of the sub-batches that raised BulkWriteError.
C2_BulkWriteErrorNotEscalated ==
    /\ pc = "load_except" => IsStoreFailure(Last(log))
    /\ (log # <<>> /\ Last(log).op = "insert_many" /\ Last(log).res = "bwe")
            => pc \in {"load_loop", "load_return"} /\ i = Len(sent) /\ warnings >= 1
    /\ (log # <<>> /\ Last(log).op = "return" /\ Last(log).arg = "cargar_en_mongodb")
            => /\ Len(sent) = num_batches
               /\ Flatten(sent) = records
               /\ warnings <= num_batches
               /\ Range(RequiredIndexes(collection_name)) \subseteq indexes

\* Every sub-batch of a call of two sub-batches raised BulkWriteError and
\* the call returned True.
C2_Witness ==
    /\ log # <<>>
    /\ Last(log) = Event("return", "cargar_en_mongodb", "True")
    /\ num_batches = 2
    /\ warnings = 2

----------------------------------------------------------------------------
(* C3 *)

\* C3: the sub-batches passed to insert_many are non-empty, hold at most
\* batch_size records, and concatenated in call order are a prefix of the
\* record list; when the loop is over they are exactly ceil(n / batch_size)
\* sub-batches that concatenate to the record list, none for n = 0.
C3_SubBatches ==
    pc \in {"load_loop", "load_except", "load_return", "loaded", "load_raised"}
        => /\ Len(records) = Len(dataframe)
           /\ \A k \in DOMAIN sent : sent[k] # <<>> /\ Len(sent[k]) <= batch_size
           /\ IsPrefix(Flatten(sent), records)
           /\ Cardinality(Events("insert_many")) = Len(sent)
           /\ pc \in {"load_return", "loaded"}
                => /\ Len(sent) = CeilDiv(Len(records), batch_size)
                   /\ Flatten(sent) = records
                   /\ Len(records) = 0 => Events("insert_many") = {}

\* Five records in sub-batches of two: three calls, the last of one record.
C3_Witness ==
    /\ pc = "loaded"
    /\ Len(records) = 5
    /\ batch_size = 2
    /\ Len(sent) = 3
    /\ Len(sent[3]) = 1

----------------------------------------------------------------------------
(* C4 *)

\* C4: the file is Aborted only if the streaming path raised and the
\* fallback path raised too; the fallback path is entered at most once; and
\* when the loader returns in the fallback path the file is Completed.
C4_AbortedOnlyIfBothFail ==
    /\ Cardinality(FallbackReads) <= 1
    /\ pc = "aborted"
        => \E w \in FallbackReads :
            /\ \E a \in 1..(w - 1) : log[a].res = "error"
            /\ \E b \in w..Len(log) : log[b].res = "error" /\ log[b].op # "raise"
            /\ Last(log) = Event("raise", "procesar_archivo_csv", "error")
    /\ (\E w \in FallbackReads, r \in LoaderReturns : w < r)
        => pc = "completed" /\ Last(log) = Event("return", "procesar_archivo_csv", "True")
    /\ pc = "completed" => Last(log) = Event("return", "procesar_archivo_csv", "True")
    /\ Events("raise") # {} /\ pc \notin {"except", "load_except"}
        => pc \in {"aborted", "fb_transform", "load_begin", "load_loop", "load_return", "completed"}

\* Aborted after the loader failed in the streaming path and again in the
\* fallback path.
C4_Witness ==
    /\ pc = "aborted"
    /\ \E w \in FallbackReads :
        /\ log[w].res = "ok"
        /\ \E a \in 1..(w - 1) : IsStoreFailure(log[a])
        /\ \E b \in (w + 1)..Len(log) : IsStoreFailure(log[b])

----------------------------------------------------------------------------
(* C5 *)

PlaylistIndexes == {[field |-> "id", unique |-> TRUE], [field |-> "name", unique |-> FALSE]}

TrackIndexes ==
    {[field |-> "id", unique |-> TRUE],
     [field |-> "artist_name", unique |-> FALSE],
     [field |-> "track_name", unique |-> FALSE]}

ExpectedIndexes ==
    IF collection_name = "playlists" THEN PlaylistIndexes
    ELSE IF collection_name = "tracks" THEN TrackIndexes
    ELSE {}

\* C5: create_index is called only when every sub-batch of the call has
\* been passed to insert_many, and no insert_many follows it within the
\* call; once a call has returned True the collection has exactly its
\* required indexes, and later calls leave that set as it is.
C5_IndexesAfterSubBatches ==
    /\ (log # <<>> /\ Last(log).op = "create_index")
        => Len(sent) = num_batches /\ Flatten(sent) = records
    /\ \A a \in Events("create_index"), b \in Events("insert_many") :
        a < b => \E c \in Events("call") : a < c /\ c < b
    /\ indexes \subseteq ExpectedIndexes
    /\ LoaderReturns # {} => indexes = ExpectedIndexes

\* The second chunk of a playlist file has been loaded: index creation ran
\* twice and the collection has its two indexes.
C5_Witness ==
    /\ collection_name = "playlists"
    /\ Cardinality(LoaderReturns) = 2
    /\ Cardinality(Events("create_index")) = 4
    /\ indexes = PlaylistIndexes
    /\ Events("insert_many") # {}

----------------------------------------------------------------------------
(* C6 *)

\* C6: with no fault on the way, an empty file and a header-only file are
\* processed without an exception reaching the caller and without a record
\* passed to insert_many.
C6_EmptyFileNoError ==
    (faults = 0 /\ (file.status = "empty" \/ (file.status = "ok" /\ file.rows = <<>>)))
        => /\ pc # "aborted"
           /\ Events("insert_many") = {}
           /\ Events("raise") = {}

----------------------------------------------------------------------------
(* C7 *)

\* C7: every record of the playlist transform's output has a name that is
\* neither missing nor the empty string.
C7_NameNeverEmpty ==
    (tkind = "playlists" /\ tpc = "done")
        => \A k \in DOMAIN tdf : ~tdf[k].name.nan /\ tdf[k].name.v # <<>>

----------------------------------------------------------------------------
(* C8 *)

\* The frame the numeric step of the track transform starts from.
BeforeNumeric == fillna_tracks(drop_duplicates(tin))

Column(df) == [k \in DOMAIN df |-> df[k].popularity]

Kept(df) ==
    {k \in DOMAIN df :
        /\ ~df[k].popularity.nan
        /\ 40 * df[k].popularity.v >= lower_bound40(df)
        /\ 40 * df[k].popularity.v <= upper_bound40(df)}

RECURSIVE Restrict(_, _)
\* The rows of df whose position is in K, in order.
Restrict(df, K) ==
    IF df = <<>> THEN <<>>
    ELSE LET n == Len(df)
             front == Restrict(SubSeq(df, 1, n - 1), K)
         IN  IF n \in K THEN Append(front, df[n]) ELSE front

\* The scenario column [1, 2, 3, 4, 1000].
ScenarioFrame == LongFrame(5, 1000, FALSE)

\* C8 as stated: with the bounds from the 5th and 95th percentiles every
\* value outside them becomes the median of the others, and in the column
\* [1, 2, 3, 4, 1000] the value 1000 becomes 2.5.
C8_ScenarioReplaced ==
    (tkind = "tracks" /\ tpc \in {"cut", "done"} /\ tin = ScenarioFrame)
        => Column(tdf) = <<Num(1), Num(2), Num(3), Num(4), Val(5)>>

\* C8, amended: values within the bounds are kept, the others (and the
\* missing ones) become the median of the kept values; in the column
\* [1, 2, 3, 4, 1000] the bounds are -1198.2 and 2000.2 and nothing is
\* replaced; in 1..13 followed by 1000 the value 1000 becomes 7, in 1..20
\* followed by 1000 it becomes 10.5.
C8_OutlierSuppression ==
    (tkind = "tracks" /\ tpc \in {"cut", "done"})
        => LET pre == BeforeNumeric
               kept == Kept(pre)
               m == median(Restrict(pre, kept))
           IN  /\ Len(tdf) = Len(pre)
               /\ \A k \in DOMAIN pre :
                    tdf[k].popularity = IF k \in kept THEN pre[k].popularity ELSE m
               /\ tin = ScenarioFrame
                    => /\ lower_bound40(pre) = 2 * 40 * (0 - 1198) - 16
                       /\ upper_bound40(pre) = 2 * 40 * 2000 + 16
                       /\ Column(tdf) = <<Num(1), Num(2), Num(3), Num(4), Num(1000)>>
               /\ tin = LongFrame(14, 1000, FALSE)
                    => Column(tdf) = [k \in 1..14 |-> IF k = 14 THEN Num(7) ELSE Num(k)]
               /\ tin = LongFrame(21, 1000, FALSE)
                    => Column(tdf) = [k \in 1..21 |-> IF k = 21 THEN Val(21) ELSE Num(k)]

\* The value 1000 after 1..13 has been replaced by the median 7.
C8_Witness ==
    /\ tkind = "tracks"
    /\ tpc = "done"
    /\ tin = LongFrame(14, 1000, FALSE)
    /\ tdf[14].popularity = Num(7)

----------------------------------------------------------------------------
(* C9 *)

ClaimedCategory(c) ==
    IF c.v < 0 \/ c.v > 2 * 100 THEN "NaN"
    ELSE IF c.v <= 2 * 20 THEN "Very Low"
    ELSE IF c.v <= 2 * 40 THEN "Low"
    ELSE IF c.v <= 2 * 60 THEN "Medium"
    ELSE IF c.v <= 2 * 80 THEN "High"
    ELSE "Very High"

\* C9: popularity_category is Very Low for 0 and up to 20, Low up to 40,
\* Medium up to 60, High up to 80, Very High up to 100, and null below 0 or
\* above 100.
C9_PopularityCategory ==
    (tkind = "tracks" /\ tpc = "done")
        => \A k \in DOMAIN tdf :
            ~tdf[k].popularity.nan
                => tdf[k].popularity_category = ClaimedCategory(tdf[k].popularity)

----------------------------------------------------------------------------
(* C10 *)

\* C10: the output of the playlist transform holds no two records that are
\* equal in every field.
C10_NoDuplicateRecords ==
    (tkind = "playlists" /\ tpc = "done")
        => \A a \in DOMAIN tdf, b \in DOMAIN tdf : a # b => tdf[a] # tdf[b]

----------------------------------------------------------------------------
(* C11 *)

ProcessEvents == Events("process_file")

FileRaises ==
    {k \in DOMAIN log : log[k] = Event("raise", "procesar_archivo_csv", "error")}

FileReturns ==
    {k \in DOMAIN log : log[k] = Event("return", "procesar_archivo_csv", "True")}

CountQueries == Events("count_documents")

\* C11: ejecutar_etl ends by returning True or False, never by an
\* exception; the files are processed in list order; once a file has
\* raised, nothing follows but the return of False (no later file, no
\* document count); True is returned only when every file was processed to
\* completion and the collections were counted after the last of them.
C11_EtlReturnsFalseOnFailure ==
    /\ exito \in {"none", "True", "False"}
    /\ epc = "returned" <=> exito # "none"
    /\ Cardinality(ProcessEvents) = idx
    /\ \A k \in ProcessEvents :
        LET n == Cardinality({j \in ProcessEvents : j <= k})
        IN  /\ log[k].res = ToString(n)
            /\ log[k].arg = CollectionOf(archivos[n])
            /\ Cardinality({r \in FileReturns : r < k}) = n - 1
    /\ \A a \in FileRaises, b \in DOMAIN log :
        a < b => log[b] = Event("return", "ejecutar_etl", "False")
    /\ (epc = "returned" /\ FileRaises # {})
        => exito = "False" /\ CountQueries = {}
    /\ exito = "True"
        => /\ idx = Len(archivos)
           /\ Cardinality(FileReturns) = Len(archivos)
           /\ FileRaises = {}
           /\ \A c \in CountQueries, r \in FileReturns \cup ProcessEvents : r < c
           /\ {log[c].arg : c \in CountQueries} = list_collection_names(db)
           /\ Last(log) = Event("return", "ejecutar_etl", "True")

\* Of two files the first was read and failed in both paths: the second
\* was never processed, nothing was counted and False was returned.
C11_Witness ==
    /\ epc = "returned"
    /\ exito = "False"
    /\ Len(archivos) = 2
    /\ archivos[1].status = "ok"
    /\ FileRaises # {}
    /\ Cardinality(ProcessEvents) = 1
    /\ CountQueries = {}

====
